---- MODULE Spec2Model ----
(***************************************************************************)
(* Virtual Closet: the colour namer, the rule deriver, the compatibility   *)
(* filter and the outfit composer of src/src/App.tsx.                      *)
(*                                                                         *)
(* Representation.                                                         *)
(*  - A colour string '#rrggbb' is the tuple of the values of its six hex  *)
(*    digits (the '#' is what hexToRgb strips first; parseInt ignores the  *)
(*    case of the digits).                                                 *)
(*  - A garment id is the tuple of the UTF-16 code units of the string, so *)
(*    that Array.sort and Array.join act on it as they do in the code.     *)
(*  - An optional field is a tuple of length 0 (undefined) or 1 (a value). *)
(*  - A template string is the tuple of its pieces.                        *)
(*  - colorDistance returns Math.sqrt(n) of an integer n in 0..195075.     *)
(*    Math.sqrt is exact on perfect squares and strictly increasing on     *)
(*    these integers, so d1 < d2 and d > k are decided on the radicands:   *)
(*    the model keeps n and compares it with k * k.                        *)
(***************************************************************************)
EXTENDS Integers, Sequences, FiniteSets, TLC

VARIABLES garments, profile, suggestions, pc, hexIn, nameOut, calls, log

vars == <<garments, profile, suggestions, pc, hexIn, nameOut, calls, log>>

----------------------------------------------------------------------------
(* Colour arithmetic, App.tsx 56-71 *)

Hex(a, b, c, d, e, f) == <<a, b, c, d, e, f>>

RECURSIVE parseInt16(_)
parseInt16(str) ==
  IF Len(str) = 0 THEN 0
  ELSE 16 * parseInt16(SubSeq(str, 1, Len(str) - 1)) + str[Len(str)]

hexToRgb(hex) ==
  LET parsed == hex
      str == IF Len(parsed) = 3
             THEN <<parsed[1], parsed[1], parsed[2], parsed[2], parsed[3], parsed[3]>>
             ELSE parsed
      bigint == parseInt16(str)
  IN [r |-> (bigint \div 65536) % 256,
      g |-> (bigint \div 256) % 256,
      b |-> bigint % 256]

rgbToHex(r, g, b) ==
  <<r \div 16, r % 16, g \div 16, g % 16, b \div 16, b % 16>>

\* the radicand of colorDistance: Math.sqrt of it is what the code returns
colorDistance(hex1, hex2) ==
  LET a == hexToRgb(hex1)
      b == hexToRgb(hex2)
  IN (a.r - b.r) * (a.r - b.r) + (a.g - b.g) * (a.g - b.g) + (a.b - b.b) * (a.b - b.b)

\* colorDistance(..) > k in the code
Exceeds(d, k) == d > k * k

----------------------------------------------------------------------------
(* Named palette, App.tsx 73-88 *)

NAMED_ENTRIES ==
  << <<Hex(0,0,0,0,0,0),       "black">>,
     <<Hex(2,2,2,2,2,2),       "charcoal">>,
     <<Hex(4,4,4,4,4,4),       "graphite">>,
     <<Hex(6,6,6,6,6,6),       "slate">>,
     <<Hex(8,8,8,8,8,8),       "gray">>,
     <<Hex(15,15,15,15,15,15), "white">>,
     <<Hex(15,2,15,2,15,2),    "off white">>,
     <<Hex(12,0,3,9,2,11),     "red">>,
     <<Hex(13,3,5,4,0,0),      "orange">>,
     <<Hex(15,3,9,12,1,2),     "amber">>,
     <<Hex(2,7,10,14,6,0),     "green">>,
     <<Hex(1,6,10,0,8,5),      "teal">>,
     <<Hex(2,9,8,0,11,9),      "blue">>,
     <<Hex(8,14,4,4,10,13),    "purple">>,
     <<Hex(14,6,7,14,2,2),     "rust">>,
     <<Hex(11,8,7,3,3,3),      "copper">>,
     <<Hex(10,0,5,2,2,13),     "brown">> >>

\* Object.keys of a record with non-numeric string keys: insertion order
NAMED_KEYS == [i \in 1..Len(NAMED_ENTRIES) |-> NAMED_ENTRIES[i][1]]

NAMED_COLORS(key) ==
  LET i == CHOOSE j \in 1..Len(NAMED_ENTRIES) : NAMED_ENTRIES[j][1] = key
  IN NAMED_ENTRIES[i][2]

PaletteNames == {NAMED_ENTRIES[i][2] : i \in 1..Len(NAMED_ENTRIES)}

\* a scan that lets a later entry at the same distance win
LessOrEqualBest(d, bestD) == bestD = <<>> \/ d <= bestD[1]

\* bestD starts at Infinity: <<>>; afterwards <<d>>
LessThanBest(d, bestD) == bestD = <<>> \/ d < bestD[1]

RECURSIVE nearestScan(_, _, _, _)
nearestScan(hex, i, best, bestD) ==
  IF i > Len(NAMED_KEYS) THEN best
  ELSE LET key == NAMED_KEYS[i]
           d == colorDistance(hex, key)
       IN IF LessThanBest(d, bestD)
          THEN nearestScan(hex, i + 1, key, <<d>>)
          ELSE nearestScan(hex, i + 1, best, bestD)

\* the loop of nameNearestColor: the palette key it ends with
nearestKey(hex) == nearestScan(hex, 1, NAMED_KEYS[1], <<>>)

\* The sample colours of the wardrobes (extractDominantColor's results,
\* rgbToHex(r, g, b), App.tsx 108-109).  They lie on one line at 0, 80, 90
\* and 150 from the first, so that every threshold of the composer (60, 80,
\* 90) is met exactly by some pair:
\*   |AB| = 80  |AC| = 90  |AD| = 150  |BC| = 10  |BD| = 70  |CD| = 60
\* and their nearest palette names are teal, green, graphite, brown.
ColorA == rgbToHex(0, 135, 90)
ColorB == rgbToHex(64, 135, 42)
ColorC == rgbToHex(72, 135, 36)
ColorD == rgbToHex(120, 135, 0)
Colors == {ColorA, ColorB, ColorC, ColorD}

\* nearestKey of the sample colours, evaluated once
nearestKeyOfSample == [hex \in Colors |-> nearestKey(hex)]

nameNearestColor(hex) ==
  NAMED_COLORS(IF hex \in Colors THEN nearestKeyOfSample[hex] ELSE nearestKey(hex))

----------------------------------------------------------------------------
(* Rule deriver and undertone test, App.tsx 129-145 *)

Undefined == "undefined"

\* !x for a value that is a string or undefined
Falsy(x) == x = Undefined \/ x = ""

Includes(seq, x) == \E i \in 1..Len(seq) : seq[i] = x

buildRules(p) ==
  LET g1 == IF p.bodyType = "rectangle" THEN <<"accentuateWaist">> ELSE <<>>
      g2 == IF p.bodyType = "triangle" THEN <<"accentuateShoulders", "elongate">> ELSE <<>>
      g3 == IF p.bodyType = "invertedTriangle" THEN <<"minimizeHips", "balance">> ELSE <<>>
      g4 == IF p.bodyType = "hourglass" THEN <<"accentuateWaist">> ELSE <<>>
      g5 == IF p.bodyType = "oval" THEN <<"elongate", "relaxed">> ELSE <<>>
  IN g1 \o g2 \o g3 \o g4 \o g5

coolFriendly == <<"blue", "purple", "charcoal", "graphite", "white", "teal">>
warmFriendly == <<"rust", "amber", "copper", "brown", "green", "off white">>

\* the two friendly lists taken for each other
isColorFriendlySwapped(hex, p) ==
  LET undertone == p.skinUndertone
  IN IF Falsy(undertone) THEN TRUE
     ELSE LET name == nameNearestColor(hex)
          IN IF undertone = "cool" THEN Includes(warmFriendly, name)
             ELSE IF undertone = "warm" THEN Includes(coolFriendly, name)
             ELSE TRUE

isColorFriendly(hex, p) ==
  LET undertone == p.skinUndertone
  IN IF Falsy(undertone) THEN TRUE
     ELSE LET name == nameNearestColor(hex)
          IN IF undertone = "cool" THEN Includes(coolFriendly, name)
             ELSE IF undertone = "warm" THEN Includes(warmFriendly, name)
             ELSE TRUE

----------------------------------------------------------------------------
(* Outfit composer, App.tsx 147-201 *)

DRESS_LIMIT == 6
TOP_LIMIT == 8
RESULT_CAP == 12
LAYER_CONTRAST == 90
SHOE_CONTRAST == 60
BOTTOM_CONTRAST == 80
DASH == 45

OfType(gs, ty) == SelectSeq(gs, LAMBDA g : g.type = ty)

\* Array.prototype.slice(0, n)
SliceTo(seq, n) == SubSeq(seq, 1, IF Len(seq) < n THEN Len(seq) ELSE n)

\* Array.prototype.find: <<>> when nothing matches, else <<the first match>>
Find(seq, Test(_)) ==
  LET scan[i \in 1..(Len(seq) + 1)] ==
        IF i > Len(seq) THEN <<>>
        ELSE IF Test(seq[i]) THEN <<seq[i]>>
        ELSE scan[i + 1]
  IN scan[1]

findLayer(outers, anchor) ==
  Find(outers, LAMBDA o : Exceeds(colorDistance(o.colorHex, anchor.colorHex), LAYER_CONTRAST))

\* shoes that qualify at a distance of exactly 60 too
findShoeAtLeast(shoes, ref) ==
  Find(shoes, LAMBDA s : colorDistance(s.colorHex, ref.colorHex) >= SHOE_CONTRAST * SHOE_CONTRAST)

findShoe(shoes, ref) ==
  Find(shoes, LAMBDA s : Exceeds(colorDistance(s.colorHex, ref.colorHex), SHOE_CONTRAST))

findBottom(bottoms, t) ==
  Find(bottoms, LAMBDA b : Exceeds(colorDistance(b.colorHex, t.colorHex), BOTTOM_CONTRAST))

dressRationale(d, layer) ==
  << <<"Dress as one-and-done base">>,
     IF layer # <<>>
     THEN <<"Layer adds structure (", nameNearestColor(layer[1].colorHex), " vs ",
            nameNearestColor(d.colorHex), ")">>
     ELSE <<"Minimal layering to elongate line">>,
     <<"Shoes chosen for contrast">> >>

\* the body of dresses.slice(0,6).forEach: what it pushes onto combos
dressCombo(d, outers, shoes) ==
  LET layer == findLayer(outers, d)
      shoe == findShoe(shoes, d)
  IN IF shoe # <<>>
     THEN << [items |-> <<d>> \o layer \o shoe, rationale |-> dressRationale(d, layer)] >>
     ELSE <<>>

\* advisories in the order of the goals in rules
topRationaleInRuleOrder(t, bottom, rules) ==
  LET advice(goal) ==
        IF goal = "accentuateWaist" THEN << <<"Tuck or belt to define waistline">> >>
        ELSE IF goal = "elongate"
        THEN << <<"Monochromatic column from top to shoe to elongate silhouette">> >>
        ELSE IF goal = "accentuateShoulders"
        THEN << <<"Structured shoulder or boat-neck to broaden upper body">> >>
        ELSE <<>>
  IN << <<"Top (", nameNearestColor(t.colorHex), ") with ",
          nameNearestColor(bottom.colorHex), " bottom for contrast">> >>
     \o (IF Len(rules) >= 1 THEN advice(rules[1]) ELSE <<>>)
     \o (IF Len(rules) >= 2 THEN advice(rules[2]) ELSE <<>>)

topRationale(t, bottom, rules) ==
  << <<"Top (", nameNearestColor(t.colorHex), ") with ",
       nameNearestColor(bottom.colorHex), " bottom for contrast">> >>
  \o (IF Includes(rules, "accentuateWaist")
      THEN << <<"Tuck or belt to define waistline">> >> ELSE <<>>)
  \o (IF Includes(rules, "elongate")
      THEN << <<"Monochromatic column from top to shoe to elongate silhouette">> >> ELSE <<>>)
  \o (IF Includes(rules, "accentuateShoulders")
      THEN << <<"Structured shoulder or boat-neck to broaden upper body">> >> ELSE <<>>)

\* shoes measured from the top instead of the bottom
topComboShoeFromTop(t, bottoms, outers, shoes, rules) ==
  LET bottom == findBottom(bottoms, t)
  IN IF bottom = <<>> THEN <<>>
     ELSE LET layer == findLayer(outers, t)
              shoe == findShoe(shoes, t)
          IN << [items |-> <<t>> \o bottom \o layer \o shoe,
                 rationale |-> topRationale(t, bottom[1], rules)] >>

\* one combo for every bottom beyond the threshold
topComboEveryBottom(t, bottoms, outers, shoes, rules) ==
  LET far == SelectSeq(bottoms,
                       LAMBDA b : Exceeds(colorDistance(b.colorHex, t.colorHex), BOTTOM_CONTRAST))
      layer == findLayer(outers, t)
  IN [k \in 1..Len(far) |->
        [items |-> <<t, far[k]>> \o layer \o findShoe(shoes, far[k]),
         rationale |-> topRationale(t, far[k], rules)]]

\* the body of tops.slice(0,8).forEach: what it pushes onto combos
topCombo(t, bottoms, outers, shoes, rules) ==
  LET bottom == findBottom(bottoms, t)
  IN IF bottom = <<>> THEN <<>>
     ELSE LET layer == findLayer(outers, t)
              shoe == findShoe(shoes, bottom[1])
          IN << [items |-> <<t>> \o bottom \o layer \o shoe,
                 rationale |-> topRationale(t, bottom[1], rules)] >>

\* forEach over seq, concatenating what each body pushes
ForEachPush(seq, Body(_)) ==
  LET rest[i \in 1..(Len(seq) + 1)] ==
        IF i > Len(seq) THEN <<>>
        ELSE Body(seq[i]) \o rest[i + 1]
  IN rest[1]

dressCandidates(gs) ==
  ForEachPush(SliceTo(OfType(gs, "dress"), DRESS_LIMIT),
              LAMBDA d : dressCombo(d, OfType(gs, "outerwear"), OfType(gs, "shoes")))

\* pairing that passes over the partners the filter would reject
topCandidatesSkippingRejected(gs, p) ==
  LET pass(g) ==
        /\ (p.dislikedColors = <<>>
              \/ ~Includes(p.dislikedColors[1], nameNearestColor(g.colorHex)))
        /\ (p.favoriteColors = <<>>
              \/ Len(p.favoriteColors[1]) = 0
              \/ Includes(p.favoriteColors[1], nameNearestColor(g.colorHex)))
        /\ isColorFriendly(g.colorHex, p)
      ok == SelectSeq(gs, LAMBDA g : g.type = "top" \/ pass(g))
  IN ForEachPush(SliceTo(OfType(ok, "top"), TOP_LIMIT),
                 LAMBDA t : topCombo(t, OfType(ok, "bottom"), OfType(ok, "outerwear"),
                                     OfType(ok, "shoes"), buildRules(p)))

topCandidates(gs, p) ==
  ForEachPush(SliceTo(OfType(gs, "top"), TOP_LIMIT),
              LAMBDA t : topCombo(t, OfType(gs, "bottom"), OfType(gs, "outerwear"),
                                  OfType(gs, "shoes"), buildRules(p)))

allCombos(gs, p) == dressCandidates(gs) \o topCandidates(gs, p)

\* a filter without the favourites clause
itemAcceptableNoFavorites(i, p) ==
  /\ (p.dislikedColors = <<>>
        \/ ~Includes(p.dislikedColors[1], nameNearestColor(i.colorHex)))
  /\ isColorFriendly(i.colorHex, p)

\* a filter that reads the stored colorName instead of naming colorHex
itemAcceptableByStoredName(i, p) ==
  /\ (p.dislikedColors = <<>> \/ ~Includes(p.dislikedColors[1], i.colorName))
  /\ (p.favoriteColors = <<>>
        \/ Len(p.favoriteColors[1]) = 0
        \/ Includes(p.favoriteColors[1], i.colorName))
  /\ isColorFriendly(i.colorHex, p)

itemAcceptable(i, p) ==
  /\ (p.dislikedColors = <<>>
        \/ ~Includes(p.dislikedColors[1], nameNearestColor(i.colorHex)))
  /\ (p.favoriteColors = <<>>
        \/ Len(p.favoriteColors[1]) = 0
        \/ Includes(p.favoriteColors[1], nameNearestColor(i.colorHex)))
  /\ isColorFriendly(i.colorHex, p)

\* a filter that looks at the anchor only
comboAcceptableAnchorOnly(c, p) == itemAcceptable(c.items[1], p)

comboAcceptable(c, p) == \A k \in 1..Len(c.items) : itemAcceptable(c.items[k], p)

filterCombos(combos, p) == SelectSeq(combos, LAMBDA c : comboAcceptable(c, p))

\* the default comparison of Array.prototype.sort: by UTF-16 code units
RECURSIVE StrLess(_, _)
StrLess(a, b) ==
  IF Len(b) = 0 THEN FALSE
  ELSE IF Len(a) = 0 THEN TRUE
  ELSE IF a[1] # b[1] THEN a[1] < b[1]
  ELSE StrLess(Tail(a), Tail(b))

RECURSIVE InsertSorted(_, _)
InsertSorted(sorted, x) ==
  IF Len(sorted) = 0 THEN <<x>>
  ELSE IF StrLess(x, sorted[1]) THEN <<x>> \o sorted
  ELSE <<sorted[1]>> \o InsertSorted(Tail(sorted), x)

RECURSIVE SortStrings(_)
SortStrings(seq) ==
  IF Len(seq) = 0 THEN <<>>
  ELSE InsertSorted(SortStrings(SubSeq(seq, 1, Len(seq) - 1)), seq[Len(seq)])

\* Array.prototype.join('-')
RECURSIVE JoinDash(_)
JoinDash(strs) ==
  IF Len(strs) = 0 THEN <<>>
  ELSE IF Len(strs) = 1 THEN strs[1]
  ELSE strs[1] \o <<DASH>> \o JoinDash(Tail(strs))

comboKey(c) == JoinDash(SortStrings([k \in 1..Len(c.items) |-> c.items[k].id]))

RECURSIVE uniqFrom(_, _, _)
uniqFrom(filtered, i, seen) ==
  IF i > Len(filtered) THEN <<>>
  ELSE LET key == comboKey(filtered[i])
       IN IF key \notin seen
          THEN <<filtered[i]>> \o uniqFrom(filtered, i + 1, seen \cup {key})
          ELSE uniqFrom(filtered, i + 1, seen)

uniqCombos(filtered) == uniqFrom(filtered, 1, {})

\* a result that is not truncated
capResultMissing(uniq) == uniq

capResult(uniq) == SliceTo(uniq, RESULT_CAP)

\* truncation before the filter and the dedup
mixAndMatchCapFirst(gs, p) == uniqCombos(filterCombos(capResult(allCombos(gs, p)), p))

mixAndMatch(gs, p) == capResult(uniqCombos(filterCombos(allCombos(gs, p), p)))

----------------------------------------------------------------------------
(* Inputs *)

GarmentTypes == {"top", "bottom", "dress", "outerwear", "shoes", "accessory"}

\* uid() (App.tsx 54) is a random base-36 string: ids need not differ, and
\* loadLocal (App.tsx 208) returns whatever is stored, so an id may also hold
\* the separator '-'.  Ids are built from the letters 'a' + k - 1 here; the
\* unique ids fall with the position in the wardrobe: 'z', 'y', ...
Letter(k) == <<96 + k>>
UniqueIds(pos) == Letter(27 - pos)
EqualIds(pos) == Letter(1)
DashIds(pos) ==
  IF pos = 1 THEN Letter(1) \o <<DASH>> \o Letter(2)
  ELSE IF pos = 2 THEN Letter(1)
  ELSE IF pos = 3 THEN Letter(3)
  ELSE IF pos = 4 THEN Letter(2) \o <<DASH>> \o Letter(3)
  ELSE Letter(pos)

\* a garment before it gets its id: the fields the matcher can read
Shape(ty, hex) == [type |-> ty, colorHex |-> hex]
Shapes == {Shape(ty, hex) : ty \in GarmentTypes, hex \in Colors}

\* the garment handleFiles builds (App.tsx 232-240), without the fields the
\* matcher and the claims never read (name, imageDataUrl, tags)
MakeGarment(id, shape) ==
  [id |-> id, type |-> shape.type, colorHex |-> shape.colorHex,
   colorName |-> nameNearestColor(shape.colorHex)]

WithIds(shapes, IdAt(_)) == [k \in 1..Len(shapes) |-> MakeGarment(IdAt(k), shapes[k])]

SeqsUpTo(S, n) == UNION {[1..k -> S] : k \in 0..n}
SeqsBetween(S, lo, hi) == UNION {[1..k -> S] : k \in lo..hi}
OfTypeShapes(ty, cols) == [k \in 1..Len(cols) |-> Shape(ty, cols[k])]
Repeat(x, n) == [k \in 1..n |-> x]

\* every wardrobe of at most MaxLen garments, in any order of types
MaxLen == 2
FreeShapes == SeqsUpTo(Shapes, MaxLen)

\* the anchors (dresses or tops) of a wardrobe built type by type
MaxAnchors == 2
AnchorColors == SeqsBetween(Colors, 1, MaxAnchors)

\* the garments a find() searches: a first candidate, with or without a later one
OneOrTwo(S) == {<<x>> : x \in S} \cup {<<x, y>> : x \in S, y \in S}
\* with or without one element of S
Optional(S) == {<<>>} \cup {<<x>> : x \in S}

\* dresses, then outerwear, then shoes
DressShapes(d, o, s) ==
  OfTypeShapes("dress", d) \o OfTypeShapes("outerwear", o) \o OfTypeShapes("shoes", s)

\* tops, then bottoms, then outerwear, then shoes
TopShapes(t, b, o, s) ==
  OfTypeShapes("top", t) \o OfTypeShapes("bottom", b)
    \o OfTypeShapes("outerwear", o) \o OfTypeShapes("shoes", s)

\* nd dresses of one colour, a pair of shoes, nt tops of one colour, a bottom
MaxDresses == 7
MaxTops == 9
BigColorings ==
  { <<ColorB, ColorD, ColorA, ColorC>>,
    <<ColorA, ColorD, ColorD, ColorA>>,
    <<ColorC, ColorA, ColorA, ColorD>> }
BigShapes(nd, nt, c) ==
  Repeat(Shape("dress", c[1]), nd) \o <<Shape("shoes", c[2])>>
    \o Repeat(Shape("top", c[3]), nt) \o <<Shape("bottom", c[4])>>

\* four palette colours, pairwise more than 200 apart: black, white, red, blue
PairColors ==
  {Hex(0, 0, 0, 0, 0, 0), Hex(15, 15, 15, 15, 15, 15),
   Hex(12, 0, 3, 9, 2, 11), Hex(2, 9, 8, 0, 11, 9)}
\* two tops and two bottoms, type by type or alternating
PairShapes(c, alternate) ==
  IF alternate
  THEN <<Shape("top", c[1]), Shape("bottom", c[2]), Shape("top", c[3]), Shape("bottom", c[4])>>
  ELSE <<Shape("top", c[1]), Shape("top", c[2]), Shape("bottom", c[3]), Shape("bottom", c[4])>>

BodyTypes == {"rectangle", "triangle", "invertedTriangle", "hourglass", "oval"}
Undertones == {"cool", "warm", "neutral"}
FavoriteOptions ==
  { <<>>, << <<>> >>, << <<"teal", "graphite">> >>, << <<"green", "brown", "teal">> >> }
DislikedOptions == { <<>>, << <<>> >>, << <<"brown">> >>, << <<"graphite", "green">> >> }

MakeProfile(bt, ut, fav, dis) ==
  [bodyType |-> bt, skinUndertone |-> ut, favoriteColors |-> fav, dislikedColors |-> dis]

\* the initial profile of App.tsx 207: no bodyType, undertone or colour lists
DefaultProfile == MakeProfile(Undefined, Undefined, <<>>, <<>>)

\* one field set at a time (the selects of the form give '' for no choice),
\* and some mixtures
Profiles ==
  {MakeProfile(bt, Undefined, <<>>, <<>>) : bt \in BodyTypes \cup {Undefined, ""}}
  \cup {MakeProfile(Undefined, ut, <<>>, <<>>) : ut \in Undertones \cup {""}}
  \cup {MakeProfile(Undefined, Undefined, fav, <<>>) : fav \in FavoriteOptions}
  \cup {MakeProfile(Undefined, Undefined, <<>>, dis) : dis \in DislikedOptions}
  \cup {MakeProfile("triangle", "cool", <<>>, << <<"brown">> >>),
        MakeProfile("oval", "warm", << <<"green", "brown", "teal">> >>, << <<>> >>),
        MakeProfile("hourglass", "neutral", << <<"teal", "graphite">> >>, << <<"brown">> >>),
        MakeProfile("rectangle", "cool", << <<>> >>, << <<"graphite", "green">> >>)}

SlotProfiles ==
  {DefaultProfile,
   MakeProfile("triangle", "cool", <<>>, << <<"brown">> >>),
   MakeProfile("oval", "warm", << <<"green", "brown", "teal">> >>, << <<>> >>)}

----------------------------------------------------------------------------
(* The application state: useState initialisers (App.tsx 207-208), then    *)
(* the render that evaluates useMemo(mixAndMatch) (App.tsx 250).           *)

\* no handleFiles call in flight, and nothing picked, uploaded, removed or
\* typed so far
NoLog == [picked |-> {}, uploaded |-> {}, removed |-> {}, typed |-> {}]
NoUploads == calls = {} /\ log = NoLog

InitFree ==
  \E w \in FreeShapes, p \in Profiles :
    garments = WithIds(w, UniqueIds) /\ profile = p

InitBig ==
  \E nd \in 0..MaxDresses, nt \in 0..MaxTops, c \in BigColorings, p \in Profiles :
    garments = WithIds(BigShapes(nd, nt, c), UniqueIds) /\ profile = p

InitDress ==
  \E d \in AnchorColors, o \in Optional(Colors), s \in OneOrTwo(Colors), p \in SlotProfiles :
    garments = WithIds(DressShapes(d, o, s), UniqueIds) /\ profile = p

InitTop ==
  \E t \in AnchorColors, b \in OneOrTwo(Colors), o \in Optional(Colors),
     s \in Optional(Colors), p \in SlotProfiles :
    garments = WithIds(TopShapes(t, b, o, s), UniqueIds) /\ profile = p

InitClash ==
  \E d \in AnchorColors, o \in Optional(Colors), s \in OneOrTwo(Colors) :
    /\ garments \in {WithIds(DressShapes(d, o, s), EqualIds),
                     WithIds(DressShapes(d, o, s), DashIds)}
    /\ profile = DefaultProfile

InitPairs ==
  \E c \in [1..4 -> PairColors], alternate \in BOOLEAN, p \in SlotProfiles :
    /\ \A i, j \in 1..4 : i # j => c[i] # c[j]
    /\ garments = WithIds(PairShapes(c, alternate), UniqueIds)
    /\ profile = p

Init ==
  /\ InitFree \/ InitBig \/ InitDress \/ InitTop \/ InitClash \/ InitPairs
  /\ suggestions = <<>>
  /\ pc = "mount"
  /\ hexIn = <<>>
  /\ nameOut = Undefined
  /\ NoUploads

Render ==
  /\ pc = "mount"
  /\ suggestions' = mixAndMatch(garments, profile)
  /\ pc' = "rendered"
  /\ UNCHANGED <<garments, profile, hexIn, nameOut, calls, log>>

Next == Render

Spec == Init /\ [][Next]_vars

----------------------------------------------------------------------------
(* The colour namer on its own: an upload's dominant colour is named       *)
(* (App.tsx 236-237).  The inputs are a grid of the RGB cube and the       *)
(* palette colours themselves.                                             *)

GridSteps == 15
ChannelValues == {(255 * i) \div GridSteps : i \in 0..GridSteps}
SampleHexes ==
  {rgbToHex(r, g, b) : r \in ChannelValues, g \in ChannelValues, b \in ChannelValues}
  \cup {NAMED_KEYS[i] : i \in 1..Len(NAMED_KEYS)}

InitColor ==
  /\ garments = <<>>
  /\ profile = DefaultProfile
  /\ suggestions = <<>>
  /\ pc = "mount"
  /\ hexIn \in SampleHexes
  /\ nameOut = Undefined
  /\ NoUploads

NameColor ==
  /\ nameOut = Undefined
  /\ nameOut' = nameNearestColor(hexIn)
  /\ UNCHANGED <<garments, profile, suggestions, pc, hexIn, calls, log>>

NextColor == NameColor

SpecColor == InitColor /\ [][NextColor]_vars

----------------------------------------------------------------------------
(* Edits of the wardrobe after the first render: updateGarment (App.tsx    *)
(* 246-248) called by the colour-name input (App.tsx 331); the state       *)
(* change re-renders, and useMemo evaluates mixAndMatch again.             *)

\* {...g, ...patch}
Spread(g, patch) == [f \in DOMAIN g \cup DOMAIN patch |->
                       IF f \in DOMAIN patch THEN patch[f] ELSE g[f]]
updateGarmentIn(prev, id, patch) ==
  [k \in 1..Len(prev) |-> IF prev[k].id = id THEN Spread(prev[k], patch) ELSE prev[k]]

\* what the user types into the colour-name input
TypedNames == {"brown", "mauve"}
\* the number of garments whose stored name may differ from the derived one
MaxEdited == 1
Diverged(gs) == {k \in 1..Len(gs) : gs[k].colorName # nameNearestColor(gs[k].colorHex)}

\* stored garments with their name field: 'item 1', 'item 2', ...
Numeral(k) == <<"1", "2", "3", "4", "5", "6", "7", "8", "9">>[k]
Named(gs) == [k \in 1..Len(gs) |-> Spread(gs[k], [name |-> <<"item", " ", Numeral(k)>>])]
NamesWithId(gs, id) == {gs[k].name : k \in {j \in 1..Len(gs) : gs[j].id = id}}
\* the log after name is typed into the colour-name input of the garments with id
LogTyped(id, name) ==
  [log EXCEPT !.typed = {e \in @ : e[1] \notin NamesWithId(garments, id)}
                          \cup {<<n, name>> : n \in NamesWithId(garments, id)}]

InitEdit ==
  /\ \/ \E t \in Colors, b \in OneOrTwo(Colors), o \in Optional(Colors),
           s \in Optional(Colors), p \in SlotProfiles :
          garments = Named(WithIds(TopShapes(<<t>>, b, o, s), UniqueIds)) /\ profile = p
     \/ \E d \in Colors, o \in Optional(Colors), s \in OneOrTwo(Colors), p \in SlotProfiles :
          garments = Named(WithIds(DressShapes(<<d>>, o, s), UniqueIds)) /\ profile = p
  /\ suggestions = <<>>
  /\ pc = "mount"
  /\ hexIn = <<>>
  /\ nameOut = Undefined
  /\ NoUploads

UpdateColorName ==
  /\ pc = "rendered"
  /\ \E k \in 1..Len(garments), name \in TypedNames :
       /\ garments' = updateGarmentIn(garments, garments[k].id, [colorName |-> name])
       /\ Cardinality(Diverged(garments')) <= MaxEdited
       /\ log' = LogTyped(garments[k].id, name)
  /\ suggestions' = mixAndMatch(garments', profile)
  /\ UNCHANGED <<profile, pc, hexIn, nameOut, calls>>

NextEdit == Render \/ UpdateColorName

SpecEdit == InitEdit /\ [][NextEdit]_vars

----------------------------------------------------------------------------
(* Uploads: handleFiles (App.tsx 223-243) runs up to its first await, then *)
(* one step per await; other handlers run between the steps.  A call in    *)
(* flight is the record of its locals: the files from the current one on,  *)
(* the await it waits at, colorHex, newItems, and the garments of the      *)
(* render whose closure it is.                                             *)

\* file.name is the tuple of its pieces; image is the dominant colour of the
\* picture and loads tells whether img.onload ever fires (App.tsx 93)
File(name, type, image, loads) == [name |-> name, type |-> type, image |-> image, loads |-> loads]
FileLists ==
  << << File(<<"blue", " ", "dress", ".", "png">>, "image/png", ColorA, TRUE) >>,
     << File(<<"notes", ".", "txt">>, "text/plain", <<>>, FALSE),
        File(<<"boots", ".", "jpg">>, "image/jpeg", ColorD, TRUE) >>,
     << File(<<"jeans", ".", "png">>, "image/png", ColorC, TRUE),
        File(<<"dress", " ", "coat", ".", "webp">>, "image/webp", ColorB, FALSE) >> >>
\* the number of handleFiles calls with a file list
MaxUploads == 2
\* the values uid() takes: two calls may return the same one
UploadIds == {Letter(1), Letter(2)}

\* file.type.startsWith('image/')
IsImage(file) == file.type \in {"image/png", "image/jpeg", "image/webp"}
\* file.name.replace(/\.[^.]+$/, '')
StripExtension(name) ==
  IF Len(name) >= 2 /\ name[Len(name) - 1] = "." /\ name[Len(name)] # "."
  THEN SubSeq(name, 1, Len(name) - 2) ELSE name
\* the regular expressions match inside a word: 'jeans' holds 'jean' and
\* 'boots' holds 'boot', so these pieces count as the words they hold
guessTypeFromFilename(name) ==
  LET has(words) == \E k \in 1..Len(name) : name[k] \in words
  IN IF has({"dress", "gown"}) THEN "dress"
     ELSE IF has({"coat", "jacket", "hoodie", "blazer", "parka"}) THEN "outerwear"
     ELSE IF has({"jean", "jeans", "pant", "trouser", "short"}) THEN "bottom"
     ELSE IF has({"shoe", "sneaker", "boot", "boots", "heel", "loafer"}) THEN "shoes"
     ELSE IF has({"belt", "hat", "cap", "scarf", "bag"}) THEN "accessory"
     ELSE "top"
\* the loop skips the files that are not images
RECURSIVE SkipOthers(_)
SkipOthers(files) ==
  IF files = <<>> \/ IsImage(Head(files)) THEN files ELSE SkipOthers(Tail(files))

\* the updater of a stale closure: onto the garments of the render of the call
prependToCaptured(newItems, prev, captured) == newItems \o captured
\* prev => [...newItems, ...prev]
prependTo(newItems, prev, captured) == newItems \o prev
removeGarmentFrom(prev, id) == SelectSeq(prev, LAMBDA g : g.id # id)

StoredGarment(id, ty, hex, name) ==
  [id |-> id, name |-> name, type |-> ty, colorHex |-> hex,
   colorName |-> nameNearestColor(hex)]
StoredWardrobes ==
  { <<>>,
    << StoredGarment(Letter(1), "top", ColorA, <<"item", " ", "1">>),
       StoredGarment(Letter(3), "bottom", ColorD, <<"item", " ", "2">>) >> }

\* the stored garments are those of the uploads of earlier sessions
InitUpload ==
  /\ garments \in StoredWardrobes
  /\ profile = DefaultProfile
  /\ suggestions = <<>>
  /\ pc = "mount"
  /\ hexIn = <<>>
  /\ nameOut = Undefined
  /\ calls = {}
  /\ log = [NoLog EXCEPT !.uploaded = {garments[k].name : k \in 1..Len(garments)}]

\* handleFiles up to the first await; without an image it ends at once
HandleFiles ==
  /\ pc = "rendered"
  /\ \/ UNCHANGED <<garments, suggestions, calls, log>>       \* files is null
     \/ \E i \in 1..Len(FileLists) :
          /\ i \notin log.picked
          /\ Cardinality(log.picked) < MaxUploads
          /\ calls' = calls \cup {[files |-> SkipOthers(FileLists[i]), at |-> "color",
                                   colorHex |-> <<>>, newItems |-> <<>>,
                                   captured |-> garments]}
          /\ log' = [log EXCEPT !.picked = @ \cup {i}]
          /\ UNCHANGED <<garments, suggestions>>
  /\ UNCHANGED <<profile, pc, hexIn, nameOut>>

\* await extractDominantColor(file) returns
ColorExtracted ==
  /\ \E c \in calls :
       /\ c.at = "color"
       /\ Head(c.files).loads
       /\ calls' = (calls \ {c}) \cup {[c EXCEPT !.at = "read", !.colorHex = Head(c.files).image]}
  /\ UNCHANGED <<garments, profile, suggestions, pc, hexIn, nameOut, log>>

\* await of the FileReader returns: the garment is pushed, and the loop goes
\* on to the next image or ends with setGarments
FileRead ==
  /\ \E c \in calls, id \in UploadIds :
       LET file == Head(c.files)
           items == Append(c.newItems,
                           StoredGarment(id, guessTypeFromFilename(file.name), c.colorHex,
                                         StripExtension(file.name)))
           rest == SkipOthers(Tail(c.files))
       IN /\ c.at = "read"
          /\ IF rest # <<>>
             THEN /\ calls' = (calls \ {c}) \cup
                               {[c EXCEPT !.files = rest, !.at = "color", !.newItems = items]}
                  /\ UNCHANGED <<garments, suggestions, log>>
             ELSE /\ calls' = calls \ {c}
                  /\ garments' = prependTo(items, garments, c.captured)
                  /\ suggestions' = mixAndMatch(garments', profile)
                  /\ log' = [log EXCEPT !.uploaded =
                                @ \cup {items[k].name : k \in 1..Len(items)}]
  /\ UNCHANGED <<profile, pc, hexIn, nameOut>>

RemoveGarment ==
  /\ pc = "rendered"
  /\ \E k \in 1..Len(garments) :
       /\ garments' = removeGarmentFrom(garments, garments[k].id)
       /\ log' = [log EXCEPT !.removed = @ \cup NamesWithId(garments, garments[k].id),
                              !.typed = {e \in @ : e[1] \notin NamesWithId(garments, garments[k].id)}]
  /\ suggestions' = mixAndMatch(garments', profile)
  /\ UNCHANGED <<profile, pc, hexIn, nameOut, calls>>

\* resetAll: confirm() is answered with yes or no
ResetAll ==
  /\ pc = "rendered"
  /\ \/ /\ garments' = <<>>
        /\ profile' = DefaultProfile
        /\ suggestions' = mixAndMatch(garments', profile')
        /\ log' = [log EXCEPT !.removed = @ \cup {garments[k].name : k \in 1..Len(garments)},
                               !.typed = {}]
     \/ UNCHANGED <<garments, profile, suggestions, log>>
  /\ UNCHANGED <<pc, hexIn, nameOut, calls>>

NextUpload ==
  Render \/ HandleFiles \/ ColorExtracted \/ FileRead \/ RemoveGarment
    \/ UpdateColorName \/ ResetAll

SpecUpload == InitUpload /\ [][NextUpload]_vars

----------------------------------------------------------------------------
(* Properties *)

Rendered == pc = "rendered"
Outfits == {suggestions[i] : i \in 1..Len(suggestions)}
ItemsOf(o) == {o.items[k] : k \in 1..Len(o.items)}
IdSet(o) == {o.items[k].id : k \in 1..Len(o.items)}
NameOf(g) == nameNearestColor(g.colorHex)
Candidates == allCombos(garments, profile)
CountOfType(gs, ty) == Cardinality({k \in 1..Len(gs) : gs[k].type = ty})

\* C1: no two outfits at different positions of the result have the same set
\* of garment ids, whatever the ids of the wardrobe are.
C1_NoDuplicateIdSets ==
  Rendered =>
    \A i, j \in 1..Len(suggestions) :
      i # j => IdSet(suggestions[i]) # IdSet(suggestions[j])

\* C2: the result never holds more than 12 outfits.
C2_CapRespected == Rendered => Len(suggestions) <= 12

\* 6 dresses and 8 tops each gave an acceptable candidate with a key of its own
C2_Witness ==
  /\ Rendered
  /\ Len(dressCandidates(garments)) = 6
  /\ Len(topCandidates(garments, profile)) = 8
  /\ Len(uniqCombos(filterCombos(Candidates, profile))) = 14
  /\ Len(suggestions) = 12

\* C6: the colour namer returns the name of the first palette entry, in the
\* declared order, among those at the least squared distance from the input;
\* the name is always one of the palette names.
DistanceTo(hex, i) == colorDistance(hex, NAMED_KEYS[i])
FirstNearest(hex, i) ==
  /\ \A j \in 1..Len(NAMED_KEYS) : DistanceTo(hex, i) <= DistanceTo(hex, j)
  /\ \A j \in 1..(i - 1) : DistanceTo(hex, j) > DistanceTo(hex, i)
C6_NearestFirstInOrder ==
  nameOut # Undefined =>
    /\ nameOut \in PaletteNames
    /\ \E i \in 1..Len(NAMED_ENTRIES) :
         FirstNearest(hexIn, i) /\ nameOut = NAMED_ENTRIES[i][2]

\* an input at the same least distance from two palette entries has been named
C6_Witness ==
  /\ nameOut # Undefined
  /\ \E i, j \in 1..Len(NAMED_KEYS) :
       /\ i < j
       /\ FirstNearest(hexIn, i)
       /\ DistanceTo(hexIn, j) = DistanceTo(hexIn, i)
       /\ nameOut = NAMED_ENTRIES[i][2]

Range(seq) == {seq[i] : i \in 1..Len(seq)}
CoolNames == {"blue", "purple", "charcoal", "graphite", "white", "teal"}
WarmNames == {"rust", "amber", "copper", "brown", "green", "off white"}
FavoritesActive ==
  profile.favoriteColors # <<>> /\ Len(profile.favoriteColors[1]) > 0
DislikesActive ==
  profile.dislikedColors # <<>> /\ Len(profile.dislikedColors[1]) > 0
FavoriteOk(g) == FavoritesActive => NameOf(g) \in Range(profile.favoriteColors[1])
DislikeOk(g) == DislikesActive => NameOf(g) \notin Range(profile.dislikedColors[1])
UndertoneOk(g) ==
  /\ profile.skinUndertone = "cool" => NameOf(g) \in CoolNames
  /\ profile.skinUndertone = "warm" => NameOf(g) \in WarmNames
\* the result when only the candidates that Keep accepts go on to the dedup
ResultKeeping(Keep(_)) == capResult(uniqCombos(SelectSeq(Candidates, Keep)))

\* C3: with a non-empty favoriteColors every item of every returned outfit
\* has a nearest palette name in favoriteColors; with favoriteColors unset or
\* empty the favourites remove no candidate.
C3_Favorites ==
  Rendered =>
    /\ FavoritesActive =>
         \A o \in Outfits : \A g \in ItemsOf(o) :
           NameOf(g) \in Range(profile.favoriteColors[1])
    /\ ~FavoritesActive =>
         suggestions =
           ResultKeeping(LAMBDA c : \A g \in ItemsOf(c) : DislikeOk(g) /\ UndertoneOk(g))

\* an outfit was returned while the favourites alone removed another candidate
C3_Witness ==
  /\ Rendered
  /\ FavoritesActive
  /\ suggestions # <<>>
  /\ \E c \in Range(Candidates) :
       /\ \A g \in ItemsOf(c) : DislikeOk(g) /\ UndertoneOk(g)
       /\ \E g \in ItemsOf(c) : ~FavoriteOk(g)

\* C4: no item of a returned outfit, anchor or not, has a nearest palette
\* name in dislikedColors.
C4_Dislikes ==
  Rendered =>
    \A o \in Outfits : \A k \in 1..Len(o.items) :
      profile.dislikedColors # <<>> =>
        NameOf(o.items[k]) \notin Range(profile.dislikedColors[1])

\* an outfit was returned while a candidate with an accepted anchor was removed
\* for the disliked colour of another of its items
C4_Witness ==
  /\ Rendered
  /\ DislikesActive
  /\ suggestions # <<>>
  /\ \E c \in Range(Candidates) :
       /\ DislikeOk(c.items[1])
       /\ \E k \in 2..Len(c.items) : ~DislikeOk(c.items[k])

\* C5: under a cool undertone every returned item is named blue, purple,
\* charcoal, graphite, white or teal; under a warm one rust, amber, copper,
\* brown, green or off white; with the undertone unset or neutral every colour
\* is friendly and the undertone removes no candidate.
C5_Undertone ==
  Rendered =>
    /\ profile.skinUndertone = "cool" =>
         \A o \in Outfits : \A g \in ItemsOf(o) : NameOf(g) \in CoolNames
    /\ profile.skinUndertone = "warm" =>
         \A o \in Outfits : \A g \in ItemsOf(o) : NameOf(g) \in WarmNames
    /\ profile.skinUndertone \in {Undefined, "", "neutral"} =>
         /\ \A hex \in Colors \cup Range(NAMED_KEYS) : isColorFriendly(hex, profile)
         /\ suggestions =
              ResultKeeping(LAMBDA c : \A g \in ItemsOf(c) : DislikeOk(g) /\ FavoriteOk(g))

\* under a cool undertone an outfit was returned while the undertone alone
\* removed another candidate
C5_Witness ==
  /\ Rendered
  /\ profile.skinUndertone = "cool"
  /\ suggestions # <<>>
  /\ \E c \in Range(Candidates) :
       /\ \A g \in ItemsOf(c) : DislikeOk(g) /\ FavoriteOk(g)
       /\ \E g \in ItemsOf(c) : ~UndertoneOk(g)

ShoesIn(o) == {k \in 1..Len(o.items) : o.items[k].type = "shoes"}
HasShoeBeyond60(d) ==
  \E k \in 1..Len(garments) :
    /\ garments[k].type = "shoes"
    /\ colorDistance(garments[k].colorHex, d.colorHex) > 60 * 60

\* C7: a returned outfit that starts with a dress holds exactly one pair of
\* shoes, more than 60 away from the dress; a dress with no such shoes in the
\* wardrobe anchors no outfit; a wardrobe of one dress alone gives no outfit.
C7_DressNeedsShoes ==
  Rendered =>
    /\ \A o \in Outfits :
         o.items[1].type = "dress" =>
           /\ Cardinality(ShoesIn(o)) = 1
           /\ \A k \in ShoesIn(o) :
                colorDistance(o.items[k].colorHex, o.items[1].colorHex) > 60 * 60
    /\ \A i \in 1..Len(garments) :
         (garments[i].type = "dress" /\ ~HasShoeBeyond60(garments[i])) =>
           \A o \in Outfits : o.items[1] # garments[i]
    /\ (Len(garments) = 1 /\ garments[1].type = "dress") => suggestions = <<>>

\* a dress outfit was returned, and another dress anchors none: the wardrobe
\* has shoes exactly 60 away from it and none further
C7_Witness ==
  /\ Rendered
  /\ \E o \in Outfits : o.items[1].type = "dress"
  /\ \E i, k \in 1..Len(garments) :
       /\ garments[i].type = "dress"
       /\ ~HasShoeBeyond60(garments[i])
       /\ garments[k].type = "shoes"
       /\ colorDistance(garments[k].colorHex, garments[i].colorHex) = 60 * 60
       /\ \A o \in Outfits : o.items[1] # garments[i]

\* the first garment of type ty, in wardrobe order, more than k away from ref
FirstBeyond(ty, ref, k) ==
  LET hits == {i \in 1..Len(garments) :
                 /\ garments[i].type = ty
                 /\ colorDistance(garments[i].colorHex, ref.colorHex) > k * k}
  IN IF hits = {} THEN <<>>
     ELSE <<garments[CHOOSE i \in hits : \A j \in hits : i <= j]>>
ExpectedTopItems(t) ==
  LET b == FirstBeyond("bottom", t, 80)
  IN IF b = <<>> THEN <<>>
     ELSE <<t>> \o b \o FirstBeyond("outerwear", t, 90) \o FirstBeyond("shoes", b[1], 60)
\* the indices of the first n garments of type ty
FirstOfType(ty, n) ==
  {k \in 1..Len(garments) :
     /\ garments[k].type = ty
     /\ Cardinality({j \in 1..(k - 1) : garments[j].type = ty}) < n}

\* C8: the candidate of each of the first 8 tops is [top, first bottom more
\* than 80 from the top, first outerwear more than 90 from the top if any,
\* first shoes more than 60 from that bottom if any], in this order; a top
\* without such a bottom has no candidate; returned outfits keep this order.
C8_FirstMatchPairing ==
  Rendered =>
    LET cands == topCandidates(garments, profile)
    IN /\ \A c \in Range(cands) :
            /\ \E k \in FirstOfType("top", 8) : garments[k] = c.items[1]
            /\ c.items = ExpectedTopItems(c.items[1])
       /\ \A k \in FirstOfType("top", 8) :
            IF ExpectedTopItems(garments[k]) = <<>>
            THEN \A c \in Range(cands) : c.items[1] # garments[k]
            ELSE \E c \in Range(cands) : c.items = ExpectedTopItems(garments[k])
       /\ \A o \in Outfits :
            o.items[1].type = "top" => o.items = ExpectedTopItems(o.items[1])

\* a returned outfit [top, bottom, outerwear, shoes] whose bottom is not the
\* first one of the wardrobe (that one is exactly 80 from the top), whose
\* shoes are within 60 of the top, and whose ids are not in sorted order
C8_Witness ==
  /\ Rendered
  /\ \E o \in Outfits :
       /\ Len(o.items) = 4
       /\ o.items[1].type = "top"
       /\ o.items[3].type = "outerwear"
       /\ \E k \in FirstOfType("bottom", 1) :
            /\ garments[k] # o.items[2]
            /\ colorDistance(garments[k].colorHex, o.items[1].colorHex) = 80 * 80
       /\ colorDistance(o.items[4].colorHex, o.items[1].colorHex) <= 60 * 60
       /\ SortStrings([k \in 1..4 |-> o.items[k].id]) # [k \in 1..4 |-> o.items[k].id]

\* the elements of seq at the indices in K, in order
SubseqAt(seq, K) ==
  [n \in 1..Cardinality(K) |->
     seq[CHOOSE k \in K : Cardinality({j \in K : j <= k}) = n]]
FirstN(K, n) == {k \in K : Cardinality({j \in K : j < k}) < n}
Acceptable(c) == \A g \in ItemsOf(c) : DislikeOk(g) /\ FavoriteOk(g) /\ UndertoneOk(g)
\* the candidates that are acceptable and whose key no earlier acceptable one has
KeptIndices(cands) ==
  {i \in 1..Len(cands) :
     /\ Acceptable(cands[i])
     /\ \A j \in 1..(i - 1) :
          Acceptable(cands[j]) => comboKey(cands[j]) # comboKey(cands[i])}
AnchorOrder ==
  SubseqAt(garments, FirstOfType("dress", 6)) \o SubseqAt(garments, FirstOfType("top", 8))
Anchors(cands) == [i \in 1..Len(cands) |-> cands[i].items[1]]
Produces(a) ==
  IF a.type = "dress" THEN HasShoeBeyond60(a) ELSE FirstBeyond("bottom", a, 80) # <<>>

\* C9: the candidates are those of the first 6 dresses, in dress order, then
\* those of the first 8 tops, in top order; the result is the first 12 of the
\* candidates that are acceptable and whose key did not occur earlier among
\* the acceptable ones, in the order of generation.
C9_PostProcessingOrder ==
  Rendered =>
    /\ Anchors(Candidates) =
         SubseqAt(AnchorOrder, {k \in 1..Len(AnchorOrder) : Produces(AnchorOrder[k])})
    /\ suggestions = SubseqAt(Candidates, FirstN(KeptIndices(Candidates), 12))

\* 6 dress candidates, all rejected, then 8 acceptable top candidates: all 8 returned
C9_Witness ==
  /\ Rendered
  /\ Len(dressCandidates(garments)) = 6
  /\ \A c \in Range(dressCandidates(garments)) : ~Acceptable(c)
  /\ Len(topCandidates(garments, profile)) = 8
  /\ \A c \in Range(topCandidates(garments, profile)) : Acceptable(c)
  /\ Len(suggestions) = 8
  /\ \A o \in Outfits : o.items[1].type = "top"

WaistAdvice == <<"Tuck or belt to define waistline">>
ElongateAdvice == <<"Monochromatic column from top to shoe to elongate silhouette">>
ShouldersAdvice == <<"Structured shoulder or boat-neck to broaden upper body">>
ExpectedAdvice(bt) ==
  IF bt \in {"rectangle", "hourglass"} THEN <<WaistAdvice>>
  ELSE IF bt = "triangle" THEN <<ElongateAdvice, ShouldersAdvice>>
  ELSE IF bt = "oval" THEN <<ElongateAdvice>>
  ELSE <<>>
ContrastLine(o) ==
  <<"Top (", NameOf(o.items[1]), ") with ", NameOf(o.items[2]), " bottom for contrast">>

\* C10: the rationale of a top-anchored outfit is the contrast line followed
\* by the advisories of the goals of buildRules(profile) among accentuateWaist,
\* elongate, accentuateShoulders, in this fixed order (rectangle, hourglass:
\* waist; triangle: elongate, shoulders; oval: elongate; otherwise none); a
\* dress-anchored outfit has exactly three lines, none of them an advisory.
C10_Rationale ==
  Rendered =>
    \A o \in Outfits :
      /\ o.items[1].type = "top" =>
           /\ o.rationale = <<ContrastLine(o)>> \o ExpectedAdvice(profile.bodyType)
           /\ WaistAdvice \in Range(o.rationale)
                <=> "accentuateWaist" \in Range(buildRules(profile))
           /\ ElongateAdvice \in Range(o.rationale)
                <=> "elongate" \in Range(buildRules(profile))
           /\ ShouldersAdvice \in Range(o.rationale)
                <=> "accentuateShoulders" \in Range(buildRules(profile))
      /\ o.items[1].type = "dress" =>
           /\ Len(o.rationale) = 3
           /\ Range(o.rationale) \cap {WaistAdvice, ElongateAdvice, ShouldersAdvice} = {}

\* a triangle profile with a top-anchored and a dress-anchored outfit returned
C10_Witness ==
  /\ Rendered
  /\ profile.bodyType = "triangle"
  /\ \E o \in Outfits : o.items[1].type = "top" /\ Len(o.rationale) = 3
  /\ \E o \in Outfits : o.items[1].type = "dress"

ExpectedDressItems(d) ==
  LET s == FirstBeyond("shoes", d, 60)
  IN IF s = <<>> THEN <<>>
     ELSE <<d>> \o FirstBeyond("outerwear", d, 90) \o s
\* the items the first-match pairing gives the anchor a
FirstMatchItems(a) ==
  IF a.type = "dress" THEN ExpectedDressItems(a) ELSE ExpectedTopItems(a)
ItemOk(g) == DislikeOk(g) /\ FavoriteOk(g) /\ UndertoneOk(g)
AnchorIndices == FirstOfType("dress", 6) \cup FirstOfType("top", 8)

\* C11: pairing is not retried after the filter: when an item of the
\* first-match combination of an anchor (the anchor itself, the first bottom,
\* outerwear or shoes beyond the threshold) is rejected by the dislikes,
\* favourites or undertone test, no returned outfit has that anchor, whatever
\* later items of the wardrobe would pass both tests.
C11_NoRetryAfterFilter ==
  Rendered =>
    \A k \in AnchorIndices :
      (\E i \in 1..Len(FirstMatchItems(garments[k])) :
         ~ItemOk(FirstMatchItems(garments[k])[i]))
      => \A o \in Outfits : o.items[1] # garments[k]

\* an empty result although a top and a later bottom are acceptable and more
\* than 80 apart: the first bottom beyond 80 is the one the filter rejects
C11_Witness ==
  /\ Rendered
  /\ suggestions = <<>>
  /\ \E k \in FirstOfType("top", 8) :
       /\ ItemOk(garments[k])
       /\ Len(FirstMatchItems(garments[k])) >= 2
       /\ ~ItemOk(FirstMatchItems(garments[k])[2])
       /\ \E j \in 1..Len(garments) :
            /\ garments[j].type = "bottom"
            /\ ItemOk(garments[j])
            /\ colorDistance(garments[j].colorHex, garments[k].colorHex) > 80 * 80

UniqueDashFreeIds ==
  /\ \A i, j \in 1..Len(garments) : i # j => garments[i].id # garments[j].id
  /\ \A i \in 1..Len(garments) : 45 \notin Range(garments[i].id)
AtMost(n, m) == IF n < m THEN n ELSE m
\* two tops and two bottoms, all pairwise more than 80 apart
TwoTopsTwoBottoms ==
  /\ Len(garments) = 4
  /\ CountOfType(garments, "top") = 2
  /\ CountOfType(garments, "bottom") = 2
  /\ \A i, j \in 1..4 :
       i # j => colorDistance(garments[i].colorHex, garments[j].colorHex) > 80 * 80

\* C12: with pairwise distinct ids without '-', every candidate has its own
\* anchor among the first 6 dresses and first 8 tops, no two candidates have
\* the same id-set, the dedup removes nothing, and the result has at most
\* min(#dresses, 6) + min(#tops, 8) outfits, at most one per anchor; two tops
\* and two bottoms pairwise more than 80 apart give one candidate per top,
\* each with the first bottom.
C12_OneCandidatePerAnchor ==
  (Rendered /\ UniqueDashFreeIds) =>
    LET cands == Candidates
        anchors == [i \in 1..Len(cands) |-> cands[i].items[1]]
        idSets == [i \in 1..Len(cands) |-> IdSet(cands[i])]
        kept == [i \in 1..Len(suggestions) |-> suggestions[i].items[1]]
    IN /\ Cardinality(Range(anchors)) = Len(cands)
       /\ Cardinality(Range(idSets)) = Len(cands)
       /\ Range(anchors) \subseteq {garments[k] : k \in AnchorIndices}
       /\ Len(suggestions) =
            AtMost(12, Cardinality({i \in 1..Len(cands) : Acceptable(cands[i])}))
       /\ Len(suggestions) <= AtMost(CountOfType(garments, "dress"), 6)
                                + AtMost(CountOfType(garments, "top"), 8)
       /\ Cardinality(Range(kept)) = Len(suggestions)
       /\ TwoTopsTwoBottoms =>
            /\ Len(cands) = 2
            /\ Len(suggestions) <= 2
            /\ \A i \in 1..2 :
                 /\ Len(cands[i].items) = 2
                 /\ \E k \in FirstOfType("bottom", 1) : cands[i].items[2] = garments[k]

\* two tops and two bottoms pairwise more than 80 apart, both outfits returned
C12_Witness ==
  /\ Rendered
  /\ UniqueDashFreeIds
  /\ TwoTopsTwoBottoms
  /\ Len(suggestions) = 2
  /\ suggestions[1].items[2] = suggestions[2].items[2]

\* an outfit without the stored colour names of its items
WithoutNames(o) ==
  [items |-> [k \in 1..Len(o.items) |->
                [id |-> o.items[k].id, type |-> o.items[k].type,
                 colorHex |-> o.items[k].colorHex]],
   rationale |-> o.rationale]
NameEdited == \E k \in 1..Len(garments) : garments'[k].colorName # garments[k].colorName

\* C13: a step that changes the stored colorName of a garment changes no id,
\* type or colorHex, and the suggestions after it are the suggestions before
\* it, item for item and line for line, up to the stored names.
C13_ColorNameNotRead ==
  [][(pc = "rendered" /\ Len(garments') = Len(garments) /\ NameEdited) =>
       /\ \A k \in 1..Len(garments) :
            /\ garments'[k].id = garments[k].id
            /\ garments'[k].type = garments[k].type
            /\ garments'[k].colorHex = garments[k].colorHex
       /\ Len(suggestions') = Len(suggestions)
       /\ \A i \in 1..Len(suggestions) :
            WithoutNames(suggestions'[i]) = WithoutNames(suggestions[i])]_vars

\* a returned outfit holds a garment whose stored colorName, typed by the
\* user, is in dislikedColors
C13_Witness ==
  /\ Rendered
  /\ DislikesActive
  /\ \E o \in Outfits : \E g \in ItemsOf(o) :
       /\ g.colorName # NameOf(g)
       /\ Includes(profile.dislikedColors[1], g.colorName)

NameCount(n) == Cardinality({k \in 1..Len(garments) : garments[k].name = n})
\* the names of the garments of this session's uploads
NewNames == {n \in log.uploaded : n[1] # "item"}

\* C14: whatever the interleaving of handleFiles calls with removeGarment,
\* updateGarment and resetAll, a garment of a completed upload, or of the
\* wardrobe stored by earlier sessions, is in the wardrobe exactly once unless
\* the user removed it (removeGarment with its id, or a confirmed resetAll)
\* and not at all after that; nothing else is in the wardrobe; and a garment
\* whose colour name was typed has the name typed last.
C14_NoLostUpdate ==
  /\ \A n \in log.uploaded :
       NameCount(n) = IF n \in log.removed THEN 0 ELSE 1
  /\ log.removed \subseteq log.uploaded
  /\ \A k \in 1..Len(garments) :
       /\ garments[k].name \in log.uploaded
       /\ \A e \in log.typed : e[1] = garments[k].name => garments[k].colorName = e[2]

\* two uploads have completed, one of them after a garment was removed and
\* another was edited while it was in flight: the new garments are there, the
\* edit is kept and the removed garment is gone
C14_Witness ==
  /\ calls = {}
  /\ Cardinality(log.picked) >= 2
  /\ Cardinality(NewNames) >= 2
  /\ \E n \in log.removed : n \notin NewNames
  /\ \E k \in 1..Len(garments) :
       /\ garments[k].name \notin NewNames
       /\ <<garments[k].name, garments[k].colorName>> \in log.typed
  /\ \A n \in NewNames : NameCount(n) = 1

====
